---- MODULE Spec2Model ----
(***************************************************************************)
(* A model of loganalyzer: the line parser, the per-file processor with    *)
(* its encoding fallback, the statistics merger, and the parallel          *)
(* dispatcher generate_report built on multiprocessing.Pool.map.           *)
(*                                                                         *)
(* Text is modelled as sequences of one-character strings.  Python's       *)
(* 0-based indexes are kept through At and Slice.                          *)
(***************************************************************************)
EXTENDS Integers, Sequences, FiniteSets, TLC

VARIABLES
    line,        \* SpecParse: the raw line handed to parse_log_line
    toks,        \* SpecParse: the tokens the line was written from
    parsed,      \* SpecParse: what parse_log_line returned (Unset before)
    mlist,       \* SpecMerge: the list of tables handed to merge_stats
    mres,        \* SpecMerge: the results of the merges performed
    file,        \* SpecFile: the file process_log_file is run on
    st,          \* SpecFile: process_log_file's local state
    files,       \* Spec: valid_files, as the list of the files' contents
    alone,       \* Spec: per file, how process_log_file ends on it run alone
    order,       \* Spec: the tasks in the order their results arrived
    produced,    \* Spec: per task, the table its worker sent back
    nworkers,    \* Spec: the pool's number of worker processes
    nextTask,    \* Spec: the next task of the pool's task queue
    wtask,       \* Spec: per worker, the task it runs (0: idle)
    wst,         \* Spec: per worker, process_log_file's local state
    slots,       \* Spec: MapResult._value, one slot per task
    nleft,       \* Spec: MapResult._number_left
    firstExc,    \* Spec: the first exception MapResult stored
    runs,        \* Spec: per task, how many times it was started
    gpc,         \* Spec: generate_report's / main's position
    stats_list,  \* Spec: generate_report's stats_list
    merged_stats,\* Spec: generate_report's merged_stats
    report,      \* Spec: what generate_report returned
    exitcode,    \* Spec: main's exit status
    rstats,      \* SpecReport: the table handed to the report generator
    rendered     \* SpecReport: the report it returned (Unset before)

vars == <<line, toks, parsed, mlist, mres, file, st, files, alone, order, produced, nworkers,
          nextTask, wtask, wst, slots, nleft, firstExc, runs, gpc,
          stats_list, merged_stats, report, exitcode, rstats, rendered>>

parseVars == <<line, toks, parsed>>
mergeVars == <<mlist, mres>>
fileVars  == <<file, st>>
poolVars  == <<files, alone, order, produced, nworkers, nextTask, wtask, wst, slots, nleft,
               firstExc, runs, gpc, stats_list, merged_stats, report, exitcode>>

reportVars == <<rstats, rendered>>

Unset == [kind |-> "unset"]

(***************************************************************************)
(* Bounds.                                                                 *)
(***************************************************************************)
MaxPathLen == 3

(***************************************************************************)
(* Characters and str operations.                                          *)
(***************************************************************************)
Min(a, b) == IF a <= b THEN a ELSE b

Lower == <<"a","b","c","d","e","f","g","h","i","j","k","l","m",
           "n","o","p","q","r","s","t","u","v","w","x","y","z">>

UpperSeq == <<"A","B","C","D","E","F","G","H","I","J","K","L","M",
              "N","O","P","Q","R","S","T","U","V","W","X","Y","Z">>

\* str.upper on one character
UpperChar(c) ==
    IF \E i \in 1..Len(Lower) : Lower[i] = c
    THEN UpperSeq[CHOOSE i \in 1..Len(Lower) : Lower[i] = c]
    ELSE c

\* str.upper
Upper(s) == [i \in 1..Len(s) |-> UpperChar(s[i])]

\* the characters str.split() and str.strip() treat as whitespace
Whitespace == {" ", "\t", "\n", "\r"}

RECURSIVE LStrip(_)
LStrip(s) ==
    IF s # <<>> /\ Head(s) \in Whitespace THEN LStrip(Tail(s)) ELSE s

RECURSIVE RStripWs(_)
RStripWs(s) ==
    IF s # <<>> /\ s[Len(s)] \in Whitespace
    THEN RStripWs(SubSeq(s, 1, Len(s) - 1))
    ELSE s

\* str.strip()
Strip(s) == RStripWs(LStrip(s))

\* str.rstrip(c)
RECURSIVE RStrip(_, _)
RStrip(s, c) ==
    IF s # <<>> /\ s[Len(s)] = c
    THEN RStrip(SubSeq(s, 1, Len(s) - 1), c)
    ELSE s

\* str.split(): the maximal runs of non-whitespace characters, in order
RECURSIVE SplitFrom(_, _, _)
SplitFrom(s, cur, acc) ==
    IF s = <<>>
    THEN IF cur = <<>> THEN acc ELSE Append(acc, cur)
    ELSE IF Head(s) \in Whitespace
         THEN SplitFrom(Tail(s), <<>>,
                        IF cur = <<>> THEN acc ELSE Append(acc, cur))
         ELSE SplitFrom(Tail(s), Append(cur, Head(s)), acc)

Split(s) == SplitFrom(s, <<>>, <<>>)

\* s.split(c)[0]: s up to its first c, all of s when it holds none
RECURSIVE SplitFirst(_, _)
SplitFirst(s, c) ==
    IF s = <<>> \/ Head(s) = c
    THEN <<>>
    ELSE <<Head(s)>> \o SplitFirst(Tail(s), c)

\* parts[i], 0-based; the caller guards i < len(parts)
At(parts, i) == parts[i + 1]

\* parts[a:b], 0-based, clipped to the list as Python clips a slice
Slice(parts, a, b) == SubSeq(parts, a + 1, Min(b, Len(parts)))

(***************************************************************************)
(* The literals of parse_log_line.                                         *)
(***************************************************************************)
DjangoRequest ==
    <<"d","j","a","n","g","o",".","r","e","q","u","e","s","t",":">>

GET == <<"G","E","T">>
POST == <<"P","O","S","T">>
PUT == <<"P","U","T">>
DELETE == <<"D","E","L","E","T","E">>
PATCH == <<"P","A","T","C","H">>
Methods == {GET, POST, PUT, DELETE, PATCH}

Internal == <<"I","n","t","e","r","n","a","l">>
Server == <<"S","e","r","v","e","r">>
ErrorColon == <<"E","r","r","o","r",":">>

None == [kind |-> "None"]
Pair(p, l) == [kind |-> "pair", path |-> p, level |-> l]
Raise(e) == [kind |-> "raise", exc |-> e]

\* the path of a method line: parts[5].split("?")[0].split("#")[0]
MethodPathNoFragmentSplit(tok) == SplitFirst(tok, "?")
MethodPath(tok) == SplitFirst(SplitFirst(tok, "?"), "#")

\* the path of an Internal Server Error line:
\* parts[7].split("[")[0].rstrip(":").split("#")[0]
ErrorPathFragmentFirst(tok) == RStrip(SplitFirst(SplitFirst(tok, "["), "#"), ":")
ErrorPath(tok) == SplitFirst(RStrip(SplitFirst(tok, "["), ":"), "#")

\* the body of parse_log_line's try block; parts[7] raises IndexError on
\* a list of fewer than 8 parts
TryBody(ln) ==
    LET parts == Split(Strip(ln)) IN
    IF Len(parts) >= 6 /\ At(parts, 3) = DjangoRequest
    THEN LET level == Upper(At(parts, 2)) IN
         IF At(parts, 4) \in Methods
         THEN Pair(MethodPath(At(parts, 5)), level)
         ELSE IF Slice(parts, 4, 7) = <<Internal, Server, ErrorColon>>
              THEN IF Len(parts) < 8
                   THEN Raise("IndexError")
                   ELSE Pair(ErrorPath(At(parts, 7)), level)
              ELSE None
    ELSE None

\* parse_log_line with the except clause left out
parse_log_line_uncaught(ln) == TryBody(ln)

\* parse_log_line: IndexError and ValueError end in "return None"
parse_log_line(ln) ==
    LET r == TryBody(ln) IN
    IF r.kind = "raise" /\ r.exc \in {"IndexError", "ValueError"}
    THEN None
    ELSE r

(***************************************************************************)
(* Each specification runs one part of the program; the variables of the   *)
(* other parts stay at their idle values.                                  *)
(***************************************************************************)
IdleParse == line = <<>> /\ toks = <<>> /\ parsed = Unset
IdleMerge == mlist = <<>> /\ mres = Unset
IdleFile == file = Unset /\ st = Unset
IdleReport == rstats = <<>> /\ rendered = Unset
IdlePool ==
    /\ files = <<>> /\ alone = <<>> /\ order = <<>> /\ produced = <<>> /\ nworkers = 0 /\ nextTask = 0
    /\ wtask = <<>> /\ wst = <<>> /\ slots = <<>> /\ nleft = 0
    /\ firstExc = Unset /\ runs = <<>> /\ gpc = "idle"
    /\ stats_list = Unset /\ merged_stats = Unset /\ report = Unset
    /\ exitcode = -1

(***************************************************************************)
(* The lines SpecParse hands to parse_log_line.  A line is written from a  *)
(* list of tokens, joined by whitespace.                                   *)
(***************************************************************************)
PathChars == {"a", "?", "#", "[", ":"}
PathTokens == UNION {[1..k -> PathChars] : k \in 1..MaxPathLen}
SamplePaths == {<<"/","a","?","x","#","y">>, <<"/","a",":","#","x","[","1","]">>,
                <<"/","a","#","y","?","x",":">>}

DateTok == <<"2","5","-","0","3">>
TimeTok == <<"1","2",":","2","1">>
InfoTok == <<"I","N","F","O">>
ErrorTok == <<"e","r","r","o","r">>
LevelToks == {InfoTok, <<"W","a","r","n">>}
MarkerToks == {DjangoRequest,
               <<"d","j","a","n","g","o",".","r","e","q","u","e","s","t">>}
Tok4s == Methods \cup {Internal, <<"g","e","t">>, Server}
StatusTok == <<"2","0","0">>
ErrorNoColon == <<"E","r","r","o","r">>

\* [lead, sep, trail]: the whitespace before, between and after the tokens
Styles == {<< <<>>, <<" ">>, <<"\n">> >>,
           << <<" ">>, <<"\t", " ">>, <<" ", "\r", "\n">> >>}
PlainStyle == << <<>>, <<" ">>, <<"\n">> >>

RECURSIVE JoinToks(_, _)
JoinToks(ts, sep) ==
    IF ts = <<>> THEN <<>>
    ELSE IF Len(ts) = 1 THEN ts[1]
    ELSE ts[1] \o sep \o JoinToks(Tail(ts), sep)

WriteLine(ts, style) == style[1] \o JoinToks(ts, style[2]) \o style[3]

\* the shapes whose path token ranges over every string of PathChars
PathShapes ==
    {<<DateTok, TimeTok, InfoTok, DjangoRequest, GET, p>> : p \in PathTokens}
    \cup {<<DateTok, TimeTok, ErrorTok, DjangoRequest, Internal, Server,
            ErrorColon, p>> : p \in PathTokens}

\* the shapes whose level, marker, token 4 and length vary
MethodShapes ==
    {<<DateTok, TimeTok, lv, mk, t4, p>> \o tl :
        lv \in LevelToks, mk \in MarkerToks, t4 \in Tok4s,
        p \in SamplePaths, tl \in {<<>>, <<StatusTok>>}}

ErrorShapes ==
    {<<DateTok, TimeTok, lv, mk, Internal, s, e>> \o tl :
        lv \in LevelToks, mk \in MarkerToks, s \in {Server, GET},
        e \in {ErrorColon, ErrorNoColon},
        tl \in {<<>>} \cup {<<p>> : p \in SamplePaths}
               \cup {<<p, StatusTok>> : p \in SamplePaths}}

ShortShapes ==
    {SubSeq(<<DateTok, TimeTok, InfoTok, DjangoRequest, GET>>, 1, k) : k \in 0..5}
    \cup {SubSeq(<<DateTok, TimeTok, InfoTok, DjangoRequest, Internal>>, 1, 5)}

ParseInit ==
    /\ \/ \E ts \in PathShapes :
            /\ toks = ts
            /\ line = WriteLine(ts, PlainStyle)
       \/ \E ts \in MethodShapes \cup ErrorShapes \cup ShortShapes :
            \E style \in Styles :
                /\ toks = ts
                /\ line = WriteLine(ts, style)
    /\ parsed = Unset

\* one call parse_log_line(line)
ParseLine ==
    /\ parsed = Unset
    /\ parsed' = parse_log_line(line)
    /\ UNCHANGED <<line, toks, mergeVars, fileVars, poolVars,
                   reportVars>>

ParseNext == ParseLine

ParseStart == ParseInit /\ IdleMerge /\ IdleFile /\ IdlePool /\ IdleReport

SpecParse == ParseStart /\ [][ParseNext]_vars

(***************************************************************************)
(* Properties of parse_log_line, stated on the tokens the line was written *)
(* from.                                                                   *)
(***************************************************************************)
IsPrefix(p, s) == Len(p) <= Len(s) /\ SubSeq(s, 1, Len(p)) = p

\* p is s cut before the first character of s that is in cs
IsCutAt(p, s, cs) ==
    /\ IsPrefix(p, s)
    /\ \A i \in 1..Len(p) : p[i] \notin cs
    /\ Len(p) < Len(s) => s[Len(p) + 1] \in cs

\* p is s without its trailing run of c
IsRStripOf(p, s, c) ==
    /\ IsPrefix(p, s)
    /\ \A i \in (Len(p) + 1)..Len(s) : s[i] = c
    /\ Len(p) > 0 => p[Len(p)] # c

Prefixes(s) == {SubSeq(s, 1, k) : k \in 0..Len(s)}

IsMethodLine ==
    Len(toks) >= 6 /\ toks[4] = DjangoRequest /\ toks[5] \in Methods

IsErrorLine ==
    /\ Len(toks) >= 7
    /\ toks[4] = DjangoRequest
    /\ SubSeq(toks, 5, 7) = <<Internal, Server, ErrorColon>>

\* C8: a line of at least 6 tokens with token[3] = "django.request:" and
\* token[4] one of GET, POST, PUT, DELETE, PATCH parses to a present pair
\* whose level is token[2] upper-cased and whose path is token[5] cut before
\* the first '?' or '#' of the token, whichever comes first.
C8_MethodBranch ==
    (parsed # Unset /\ IsMethodLine) =>
        /\ parsed.kind = "pair"
        /\ parsed.level = Upper(toks[3])
        /\ IsCutAt(parsed.path, toks[6], {"?", "#"})

C8_Witness ==
    /\ parsed # Unset
    /\ IsMethodLine
    /\ toks[6] = <<"a", "#", "?">>
    /\ parsed = Pair(<<"a">>, InfoTok)

\* C9: a line with token[3] = "django.request:" and tokens 4..6 = Internal,
\* Server, Error: parses to (path, token[2] upper-cased), path being
\* token[7] cut before its first '[', then without its trailing ':'s, then
\* cut before its first '#'; without a token[7] the result is absent.
C9_ErrorBranch ==
    (parsed # Unset /\ IsErrorLine) =>
        IF Len(toks) >= 8
        THEN /\ parsed.kind = "pair"
             /\ parsed.level = Upper(toks[3])
             /\ \E t1 \in Prefixes(toks[8]) : \E t2 \in Prefixes(t1) :
                    /\ IsCutAt(t1, toks[8], {"["})
                    /\ IsRStripOf(t2, t1, ":")
                    /\ IsCutAt(parsed.path, t2, {"#"})
        ELSE parsed = None

C9_Witness ==
    /\ parsed # Unset
    /\ IsErrorLine
    /\ Len(toks) >= 8
    /\ toks[8] = <<"a", ":", "#">>
    /\ parsed = Pair(<<"a", ":">>, Upper(ErrorTok))

\* C10: parse_log_line never raises; the empty line, a line of fewer than 6
\* tokens, a line whose token[3] is not "django.request:" and a line whose
\* token[4] is neither a method name nor "Internal" give absent.
C10_NeverRaises ==
    parsed # Unset =>
        /\ parsed.kind \in {"pair", "None"}
        /\ (\/ Len(toks) < 6
            \/ toks[4] # DjangoRequest
            \/ (toks[5] \notin Methods /\ toks[5] # Internal))
           => parsed = None

\* the IndexError of parts[7] is met and ends in absent
C10_Witness ==
    /\ parsed = None
    /\ IsErrorLine
    /\ Len(toks) = 7

(***************************************************************************)
(* Statistics tables and merge_stats.  A table is a function from the      *)
(* handlers it holds to functions from the levels held to counts: a key is *)
(* in the table or not, as in the dict.                                    *)
(***************************************************************************)
MaxTables == 3

EmptyStats == <<>>

\* stats[h][l] read without creating the key: stats.get(h, {}).get(l, 0)
Count(stats, h, l) ==
    IF h \in DOMAIN stats /\ l \in DOMAIN stats[h] THEN stats[h][l] ELSE 0

\* merged[h][l] = c: the slot overwritten
AddCountAssign(stats, h, l, c) ==
    LET inner == IF h \in DOMAIN stats THEN stats[h] ELSE <<>>
        inner2 == [x \in DOMAIN inner \cup {l} |-> IF x = l THEN c ELSE inner[x]]
    IN [x \in DOMAIN stats \cup {h} |-> IF x = h THEN inner2 ELSE stats[x]]

\* merged[h].setdefault(l, c): the first table's count kept
AddCountKeepFirst(stats, h, l, c) ==
    LET inner == IF h \in DOMAIN stats THEN stats[h] ELSE <<>>
        inner2 == [x \in DOMAIN inner \cup {l} |->
                     IF x \in DOMAIN inner THEN inner[x] ELSE c]
    IN [x \in DOMAIN stats \cup {h} |-> IF x = h THEN inner2 ELSE stats[x]]

\* stats[h][l] += c on the nested defaultdict: both keys are created when
\* missing, the missing count being int() = 0
AddCount(stats, h, l, c) ==
    LET inner == IF h \in DOMAIN stats THEN stats[h] ELSE <<>>
        old == IF l \in DOMAIN inner THEN inner[l] ELSE 0
        inner2 == [x \in DOMAIN inner \cup {l} |->
                     IF x = l THEN old + c ELSE inner[x]]
    IN [x \in DOMAIN stats \cup {h} |-> IF x = h THEN inner2 ELSE stats[x]]

\* for level, count in levels.items(): merged[handler][level] += count
RECURSIVE MergeLevels(_, _, _, _)
MergeLevels(merged, handler, levels, todo) ==
    IF todo = {} THEN merged
    ELSE LET level == CHOOSE l \in todo : TRUE IN
         MergeLevels(AddCount(merged, handler, level, levels[level]),
                     handler, levels, todo \ {level})

\* for handler, levels in stats.items(): ...
RECURSIVE MergeHandlers(_, _, _)
MergeHandlers(merged, stats, todo) ==
    IF todo = {} THEN merged
    ELSE LET handler == CHOOSE h \in todo : TRUE IN
         MergeHandlers(MergeLevels(merged, handler, stats[handler],
                                   DOMAIN stats[handler]),
                       stats, todo \ {handler})

\* for stats in stats_list: ...
RECURSIVE MergeList(_, _)
MergeList(merged, lst) ==
    IF lst = <<>> THEN merged
    ELSE MergeList(MergeHandlers(merged, Head(lst), DOMAIN Head(lst)), Tail(lst))

merge_stats(lst) == MergeList(EmptyStats, lst)

(***************************************************************************)
(* SpecMerge: merge_stats on lists of tables.                              *)
(***************************************************************************)
HA == <<"/","h","1">>
HB == <<"/","h","2">>
DEBUG == <<"D","E","B","U","G">>
INFO == <<"I","N","F","O">>
WARNING == <<"W","A","R","N","I","N","G">>
ERROR == <<"E","R","R","O","R">>
CRITICAL == <<"C","R","I","T","I","C","A","L">>
LOG_LEVELS == <<DEBUG, INFO, WARNING, ERROR, CRITICAL>>
TRACE == <<"T","R","A","C","E">>

Row(l1, c1) == (l1 :> c1)
Row2(l1, c1, l2, c2) == (l1 :> c1) @@ (l2 :> c2)

\* the tables of test_merge_stats, scaled down, and the tables a defaultdict
\* can be left in: empty, a handler with no level, a level read as 0
TableSet ==
    { (HA :> ((DEBUG :> 1) @@ (INFO :> 2) @@ (ERROR :> 3))),
      (HA :> Row2(DEBUG, 5, INFO, 1)) @@ (HB :> Row(INFO, 1)),
      (HB :> Row2(ERROR, 1, TRACE, 2)),
      EmptyStats,
      (HA :> <<>>),
      (HA :> Row(WARNING, 0)) @@ (HB :> Row(INFO, 4)) }

TableLists == UNION {[1..n -> TableSet] : n \in 0..MaxTables}

Permutes(n) == {f \in [1..n -> 1..n] : \A i, j \in 1..n : f[i] = f[j] => i = j}

MergeInit ==
    /\ mlist \in TableLists
    /\ mres = Unset

\* merged = merge_stats(stats_list)
MergeAll ==
    /\ mres = Unset
    /\ mres' = [op |-> "merge", out |-> merge_stats(mlist)]
    /\ UNCHANGED <<mlist, parseVars, fileVars, poolVars,
                   reportVars>>

\* merge_stats on the list and on a reordering of it
MergeReordered ==
    /\ mres = Unset
    /\ Len(mlist) >= 2
    /\ \E f \in Permutes(Len(mlist)) :
         /\ \E i \in 1..Len(mlist) : f[i] # i
         /\ mres' = [op |-> "reorder", perm |-> f,
                     a |-> merge_stats(mlist),
                     b |-> merge_stats([i \in 1..Len(mlist) |-> mlist[f[i]]])]
    /\ UNCHANGED <<mlist, parseVars, fileVars, poolVars,
                   reportVars>>

\* merge_stats nested to the left and to the right on three tables
MergeNested ==
    /\ mres = Unset
    /\ Len(mlist) >= 3
    /\ LET A == mlist[1]
           B == mlist[2]
           C == mlist[3]
       IN mres' = [op |-> "nest",
                   left |-> merge_stats(<<merge_stats(<<A, B>>), C>>),
                   right |-> merge_stats(<<A, merge_stats(<<B, C>>)>>)]
    /\ UNCHANGED <<mlist, parseVars, fileVars, poolVars,
                   reportVars>>

MergeNext == MergeAll \/ MergeReordered \/ MergeNested

MergeStart == MergeInit /\ IdleParse /\ IdleFile /\ IdlePool /\ IdleReport

SpecMerge == MergeStart /\ [][MergeNext]_vars

RECURSIVE SumCounts(_, _, _)
SumCounts(lst, h, l) ==
    IF lst = <<>> THEN 0 ELSE Count(Head(lst), h, l) + SumCounts(Tail(lst), h, l)

KeyHandlers == {HA, HB, <<"/","h","3">>}
KeyLevels == {DEBUG, INFO, WARNING, ERROR, CRITICAL, TRACE}

\* C6: the table merge_stats returns holds, at every handler and level, the
\* sum of the input tables' counts there, an absent slot counting 0; its
\* handlers are handlers of the inputs.
C6_MergeSums ==
    (mres # Unset /\ mres.op = "merge") =>
        /\ \A h \in KeyHandlers : \A l \in KeyLevels :
              Count(mres.out, h, l) = SumCounts(mlist, h, l)
        /\ \A h \in DOMAIN mres.out :
              /\ \E i \in 1..Len(mlist) : h \in DOMAIN mlist[i]
              /\ DOMAIN mres.out[h] \subseteq KeyLevels

C6_Witness ==
    /\ mres # Unset
    /\ mres.op = "merge"
    /\ Len(mlist) = 2
    /\ Count(mlist[1], HA, DEBUG) = 1
    /\ Count(mlist[2], HA, DEBUG) = 5
    /\ Count(mres.out, HA, DEBUG) = 6
    /\ Count(mres.out, HA, ERROR) = 3
    /\ Count(mres.out, HB, INFO) = 1
    /\ Count(mres.out, HB, CRITICAL) = 0

\* C7: merge_stats gives the same table on a list and on any reordering of
\* it, and merge([merge([A,B]),C]) = merge([A,merge([B,C])]).
C7_MergeCommutesAssociates ==
    /\ (mres # Unset /\ mres.op = "reorder") => mres.a = mres.b
    /\ (mres # Unset /\ mres.op = "nest") => mres.left = mres.right

C7_Witness ==
    /\ mres # Unset
    /\ mres.op = "nest"
    /\ Count(mlist[1], HA, DEBUG) = 1
    /\ Count(mlist[2], HA, DEBUG) = 5
    /\ Count(mlist[3], HB, TRACE) = 2
    /\ Count(mres.left, HA, DEBUG) = 6
    /\ Count(mres.right, HB, TRACE) = 2

(***************************************************************************)
(* process_log_file.  A file is its lines as bytes, whether it can be      *)
(* opened, and how many lines one read of the text layer's buffer decodes  *)
(* (the buffer is decoded as a whole before any of its lines is yielded).  *)
(* The bytes are ASCII, written as their characters, and ByteFF, which no  *)
(* UTF-8 text holds and which latin-1 decodes to the character U+00FF.     *)
(***************************************************************************)
MaxLines == 3
MaxChunk == 2

ByteFF == "xFF"

\* encodings = ["utf-8", "latin-1"]
encodings == <<"utf-8", "latin-1">>

\* whether decoding the raw line under the encoding raises UnicodeDecodeError
Undecodable(enc, raw) ==
    enc = "utf-8" /\ \E i \in 1..Len(raw) : raw[i] = ByteFF

\* the text of a decodable raw line: ASCII bytes are their characters under
\* both encodings, and latin-1 maps ByteFF to the character of its code point
CharFF == "U+00FF"

Decode(enc, raw) ==
    [i \in 1..Len(raw) |-> IF raw[i] = ByteFF THEN CharFF ELSE raw[i]]

\* stats = new_default_stats(); the for loop starts at encodings[0]
NewCall ==
    [pc |-> "open", enc |-> 1, pos |-> 0, avail |-> 0,
     stats |-> EmptyStats, exc |-> "none"]

\* the lines the next read of the buffer decodes
NextChunk(f, s) == (s.avail + 1)..Min(s.avail + f.chunk, Len(f.lines))

\* which step of process_log_file is next
StepKind(f, s) ==
    CASE s.pc = "open" /\ f.readable -> "open"
      [] s.pc = "open" /\ ~f.readable -> "openfails"
      [] s.pc = "read" /\ s.pos < s.avail -> "line"
      [] s.pc = "read" /\ s.pos = s.avail /\ s.avail < Len(f.lines)
         /\ (\E i \in NextChunk(f, s) : Undecodable(encodings[s.enc], f.lines[i]))
           -> "decodeerror"
      [] s.pc = "read" /\ s.pos = s.avail /\ s.avail < Len(f.lines)
         /\ ~(\E i \in NextChunk(f, s) : Undecodable(encodings[s.enc], f.lines[i]))
           -> "fill"
      [] s.pc = "read" /\ s.pos = s.avail /\ s.avail = Len(f.lines) -> "eof"
      [] OTHER -> "none"

\* with file_path.open("r", encoding=encoding) as f
OpenOk(f, s) == [s EXCEPT !.pc = "read", !.pos = 0, !.avail = 0]

\* file_path.open raises OSError, which process_log_file does not catch
OpenFails(f, s) == [s EXCEPT !.pc = "raised", !.exc = "OSError"]

\* the text layer decodes its next buffer
Fill(f, s) == [s EXCEPT !.avail = Min(s.avail + f.chunk, Len(f.lines))]

\* except UnicodeDecodeError: continue; after the last encoding the for
\* loop ends and stats is returned.  stats is the table made before the loop
DecodeError(f, s) ==
    IF s.enc < Len(encodings)
    THEN [s EXCEPT !.pc = "open", !.enc = s.enc + 1]
    ELSE [s EXCEPT !.pc = "done"]

\* the loop body with stats[path][level] = 1
ProcessLineAssign(f, s) ==
    LET r == parse_log_line(Decode(encodings[s.enc], f.lines[s.pos + 1])) IN
    [s EXCEPT !.pos = s.pos + 1,
              !.stats = IF r.kind = "pair"
                        THEN AddCountAssign(s.stats, r.path, r.level, 1)
                        ELSE s.stats]

\* parsed = parse_log_line(line); if parsed: stats[path][level] += 1
ProcessLine(f, s) ==
    LET r == parse_log_line(Decode(encodings[s.enc], f.lines[s.pos + 1])) IN
    [s EXCEPT !.pos = s.pos + 1,
              !.stats = IF r.kind = "pair"
                        THEN AddCount(s.stats, r.path, r.level, 1)
                        ELSE s.stats]

\* the file is exhausted: break, return stats
Eof(f, s) == [s EXCEPT !.pc = "done"]

\* one step of process_log_file on file f from local state s
Step(f, s) ==
    CASE StepKind(f, s) = "open" -> OpenOk(f, s)
      [] StepKind(f, s) = "openfails" -> OpenFails(f, s)
      [] StepKind(f, s) = "line" -> ProcessLine(f, s)
      [] StepKind(f, s) = "decodeerror" -> DecodeError(f, s)
      [] StepKind(f, s) = "fill" -> Fill(f, s)
      [] StepKind(f, s) = "eof" -> Eof(f, s)
      [] OTHER -> s

\* process_log_file(f) run from its call to its return or raise
RECURSIVE RunFrom(_, _)
RunFrom(f, s) == IF s.pc \in {"done", "raised"} THEN s ELSE RunFrom(f, Step(f, s))

process_log_file(f) == RunFrom(f, NewCall)

(***************************************************************************)
(* SpecFile: process_log_file on one file, step by step.                   *)
(***************************************************************************)
SlashA == <<"/","a">>
SlashB == <<"/","b">>

\* "25-03 12:21 INFO django.request: GET /a?x 200\n"
LineGetA ==
    WriteLine(<<DateTok, TimeTok, InfoTok, DjangoRequest, GET,
                <<"/","a","?","x">>, StatusTok>>, PlainStyle)

\* "25-03 12:21 error django.request: Internal Server Error: /b: [1]\n"
LineErrB ==
    WriteLine(<<DateTok, TimeTok, ErrorTok, DjangoRequest, Internal, Server,
                ErrorColon, <<"/","b",":">>, <<"[","1","]">> >>, PlainStyle)

\* "Invalid log line\n"
LineJunk ==
    WriteLine(<<<<"I","n","v","a","l","i","d">>, <<"l","o","g">>,
                <<"l","i","n","e">> >>, PlainStyle)

\* "25-03 12:21 INFO django.request: GET /a#<FF>\n"
LineGetAFF ==
    WriteLine(<<DateTok, TimeTok, InfoTok, DjangoRequest, GET,
                <<"/","a","#",ByteFF>> >>, PlainStyle)

SampleLines == {LineGetA, LineErrB, LineJunk, LineGetAFF}

FileSet ==
    {[lines |-> ls, chunk |-> c, readable |-> r] :
        ls \in UNION {[1..n -> SampleLines] : n \in 0..MaxLines},
        c \in 1..MaxChunk, r \in BOOLEAN}

FileInit ==
    /\ file \in FileSet
    /\ st = NewCall

FOpen ==
    /\ StepKind(file, st) = "open"
    /\ st' = OpenOk(file, st)
    /\ UNCHANGED <<file, parseVars, mergeVars, poolVars,
                   reportVars>>

FOpenFails ==
    /\ StepKind(file, st) = "openfails"
    /\ st' = OpenFails(file, st)
    /\ UNCHANGED <<file, parseVars, mergeVars, poolVars,
                   reportVars>>

FFill ==
    /\ StepKind(file, st) = "fill"
    /\ st' = Fill(file, st)
    /\ UNCHANGED <<file, parseVars, mergeVars, poolVars,
                   reportVars>>

FDecodeError ==
    /\ StepKind(file, st) = "decodeerror"
    /\ st' = DecodeError(file, st)
    /\ UNCHANGED <<file, parseVars, mergeVars, poolVars,
                   reportVars>>

FProcessLine ==
    /\ StepKind(file, st) = "line"
    /\ st' = ProcessLine(file, st)
    /\ UNCHANGED <<file, parseVars, mergeVars, poolVars,
                   reportVars>>

FEof ==
    /\ StepKind(file, st) = "eof"
    /\ st' = Eof(file, st)
    /\ UNCHANGED <<file, parseVars, mergeVars, poolVars,
                   reportVars>>

FileNext == FOpen \/ FOpenFails \/ FFill \/ FDecodeError \/ FProcessLine \/ FEof

FileStart == FileInit /\ IdleParse /\ IdleMerge /\ IdlePool /\ IdleReport

SpecFile == FileStart /\ [][FileNext]_vars

\* how many of the lines, decoded under enc, parse to (h, l)
NumParsing(ls, enc, h, l) ==
    Cardinality({i \in 1..Len(ls) :
                    parse_log_line(Decode(enc, ls[i])) = Pair(h, l)})

\* the table holds exactly one count per line of ls that parses, and a key
\* only where a line parses to it
CountsEachLineOnce(stats, ls, enc) ==
    /\ \A i \in 1..Len(ls) :
          LET r == parse_log_line(Decode(enc, ls[i])) IN
          r.kind = "pair" =>
              Count(stats, r.path, r.level) = NumParsing(ls, enc, r.path, r.level)
    /\ \A h \in DOMAIN stats : \A l \in DOMAIN stats[h] :
          /\ stats[h][l] = NumParsing(ls, enc, h, l)
          /\ stats[h][l] >= 1
    /\ \A h \in DOMAIN stats : DOMAIN stats[h] # {}

\* C4: when the first decoding attempt completes, table[h][l] is the number
\* of lines parse_log_line maps to (h, l); a line it maps to absent creates
\* no key and changes no count.
C4_CountsPerLine ==
    (st # Unset /\ st.pc = "done" /\ st.enc = 1) =>
        CountsEachLineOnce(st.stats, file.lines, encodings[1])

C4_Witness ==
    /\ st # Unset
    /\ st.pc = "done"
    /\ st.enc = 1
    /\ file.lines = <<LineGetA, LineJunk, LineGetA>>
    /\ st.stats = (SlashA :> (INFO :> 2))

\* C5 as claimed: after a decode failure and the restart under the fallback
\* encoding, the table counts each line of the file exactly once.
C5_RestartDiscardsCounts ==
    (st # Unset /\ st.pc = "done" /\ st.enc = 2) =>
        CountsEachLineOnce(st.stats, file.lines, encodings[2])

(***************************************************************************)
(* ReportGenerator.                                                        *)
(***************************************************************************)
\* the characters of the model in code point order, for sorted()
CharOrder ==
    <<"\t", "\n", "\r", " ", "\"", "#", ",", "-", ".", "/",
      "0", "1", "2", "3", "4", "5", "6", "7", "8", "9", ":", "?">>
    \o UpperSeq \o <<"[", "]">> \o Lower \o <<CharFF>>

Code(c) == CHOOSE i \in 1..Len(CharOrder) : CharOrder[i] = c

\* a < b as Python compares str
RECURSIVE StrLess(_, _)
StrLess(a, b) ==
    IF b = <<>> THEN FALSE
    ELSE IF a = <<>> THEN TRUE
    ELSE IF Head(a) = Head(b) THEN StrLess(Tail(a), Tail(b))
    ELSE Code(Head(a)) < Code(Head(b))

\* sorted(keys)
RECURSIVE Sorted(_)
Sorted(keys) ==
    IF keys = {} THEN <<>>
    ELSE LET m == CHOOSE k \in keys : \A o \in keys \ {k} : StrLess(k, o)
         IN <<m>> \o Sorted(keys \ {m})

DigitChars == <<"0", "1", "2", "3", "4", "5", "6", "7", "8", "9">>

\* str(n) for n >= 0
RECURSIVE Str(_)
Str(n) ==
    IF n < 10 THEN <<DigitChars[n + 1]>>
    ELSE Str(n \div 10) \o <<DigitChars[(n % 10) + 1]>>

\* s.ljust(w)
LJust(s, w) == s \o [i \in 1..(w - Len(s)) |-> " "]

RECURSIVE Concat(_)
Concat(ss) == IF ss = <<>> THEN <<>> ELSE Head(ss) \o Concat(Tail(ss))

RECURSIVE JoinWith(_, _)
JoinWith(ss, sep) ==
    IF ss = <<>> THEN <<>>
    ELSE IF Len(ss) = 1 THEN ss[1]
    ELSE ss[1] \o sep \o JoinWith(Tail(ss), sep)

RECURSIVE SumSeq(_)
SumSeq(ns) == IF ns = <<>> THEN 0 ELSE Head(ns) + SumSeq(Tail(ns))

MaxOf(ns) == CHOOSE n \in ns : \A m \in ns : m <= n

HandlerTok == <<"H","A","N","D","L","E","R">>
TotalRequestsTok ==
    <<"T","o","t","a","l"," ","r","e","q","u","e","s","t","s",":"," ">>

\* handler_data.get(level, 0) for level in LOG_LEVELS
LevelCounts(handler_data) ==
    [k \in 1..Len(LOG_LEVELS) |->
        IF LOG_LEVELS[k] \in DOMAIN handler_data
        THEN handler_data[LOG_LEVELS[k]] ELSE 0]

\* total_requests: every count read for a row, added up
TotalRequests(stats) ==
    LET hs == Sorted(DOMAIN stats) IN
    SumSeq([i \in 1..Len(hs) |-> SumSeq(LevelCounts(stats[hs[i]]))])

generate_handlers_report(stats) ==
    LET hs == Sorted(DOMAIN stats)
        rows == [i \in 1..Len(hs) |->
                   <<hs[i]>> \o [k \in 1..Len(LOG_LEVELS) |->
                                   Str(LevelCounts(stats[hs[i]])[k])]]
        level_totals == [k \in 1..Len(LOG_LEVELS) |->
                           SumSeq([i \in 1..Len(hs) |->
                                      LevelCounts(stats[hs[i]])[k]])]
        header == <<HandlerTok>> \o LOG_LEVELS
        footer == <<<<" ">>>> \o [k \in 1..Len(LOG_LEVELS) |-> Str(level_totals[k])]
        table == <<header>> \o rows \o <<footer>>
        max_col_widths == [c \in 1..Len(header) |->
                             MaxOf({Len(table[r][c]) : r \in 1..Len(table)})]
        LineOf(row) == Concat([c \in 1..Len(row) |->
                                 LJust(row[c], max_col_widths[c] + 4)])
        report_lines == <<TotalRequestsTok \o Str(TotalRequests(stats)) \o <<"\n">> >>
                        \o [r \in 1..Len(table) |-> LineOf(table[r])]
    IN JoinWith(report_lines, <<"\n">>)

\* the field written as it is, as ",".join(row) writes it
CsvFieldRaw(s) == s

\* csv.writer's minimal quoting of one field
CsvField(s) ==
    IF \E i \in 1..Len(s) : s[i] \in {",", "\"", "\r", "\n"}
    THEN <<"\"">> \o Concat([i \in 1..Len(s) |->
                               IF s[i] = "\"" THEN <<"\"", "\"">> ELSE <<s[i]>>])
         \o <<"\"">>
    ELSE s

\* writer.writerow(row)
CsvRow(row) ==
    JoinWith([c \in 1..Len(row) |-> CsvField(row[c])], <<",">>) \o <<"\r", "\n">>

generate_csv_report(stats) ==
    LET hs == Sorted(DOMAIN stats)
        rows == [i \in 1..Len(hs) |->
                   <<hs[i]>> \o [k \in 1..Len(LOG_LEVELS) |->
                                   Str(LevelCounts(stats[hs[i]])[k])]]
    IN CsvRow(<<HandlerTok>> \o LOG_LEVELS)
       \o Concat([i \in 1..Len(rows) |-> CsvRow(rows[i])])

\* parser.add_argument("--report", choices=["handlers", "levels", "csv"])
ReportChoices == {"handlers", "levels", "csv"}

\* ReportGenerator.get_report
get_report(report_name, stats) ==
    IF report_name = "handlers"
    THEN [kind |-> "str", text |-> generate_handlers_report(stats)]
    ELSE IF report_name = "csv"
    THEN [kind |-> "str", text |-> generate_csv_report(stats)]
    ELSE Raise("ValueError")

(***************************************************************************)
(* SpecReport: get_report on one finished table.  The tables are the ones  *)
(* merge_stats can hand over: any handlers the parser can return, any      *)
(* level token upper-cased, any positive count; and the tables             *)
(* process_log_file builds from lines with and without a standard level.   *)
(***************************************************************************)
MaxReportHandlers == 2
MaxCount == 12

\* the path of "GET /a,\"" : a comma and a double quote are path characters
SlashCommaQuote == <<"/", "a", ",", "\"">>

ReportHandlers == {SlashA, SlashCommaQuote, <<>>}

\* one count per standard level, all different
FullRow ==
    (DEBUG :> 5) @@ (INFO :> 4) @@ (WARNING :> 3) @@ (ERROR :> 2)
    @@ (CRITICAL :> 1)

ReportRows ==
    UNION {[ls -> {1, MaxCount}] : ls \in SUBSET {INFO, TRACE}} \cup {FullRow}

ReportTables ==
    UNION {[hs -> ReportRows] :
              hs \in {x \in SUBSET ReportHandlers :
                          Cardinality(x) <= MaxReportHandlers}}

\* "25-03 12:21 Warn django.request: GET /a\n"
LineWarnA ==
    WriteLine(<<DateTok, TimeTok, <<"W","a","r","n">>, DjangoRequest, GET,
                SlashA>>, PlainStyle)

ReportFiles ==
    {[lines |-> ls, chunk |-> MaxChunk, readable |-> TRUE] :
        ls \in UNION {[1..n -> {LineGetA, LineWarnA}] : n \in 0..MaxLines}}

ReportInit ==
    /\ rstats \in ReportTables
                  \cup {process_log_file(f).stats : f \in ReportFiles}
    /\ rendered = Unset

\* report = ReportGenerator.get_report(report_name, merged_stats)
Render ==
    /\ rendered = Unset
    /\ \E report_name \in ReportChoices :
          rendered' = [kind |-> "report", name |-> report_name,
                       out |-> get_report(report_name, rstats)]
    /\ UNCHANGED <<rstats, parseVars, mergeVars, fileVars, poolVars>>

ReportNext == Render

ReportStart == ReportInit /\ IdleParse /\ IdleMerge /\ IdleFile /\ IdlePool

SpecReport == ReportStart /\ [][ReportNext]_vars

\* the sum of a function's values
RECURSIVE SumFn(_)
SumFn(f) ==
    IF DOMAIN f = {} THEN 0
    ELSE LET k == CHOOSE x \in DOMAIN f : TRUE
         IN f[k] + SumFn([x \in DOMAIN f \ {k} |-> f[x]])

\* every count of a table, at every handler and every level it holds
TableTotal(stats) == SumFn([h \in DOMAIN stats |-> SumFn(stats[h])])

IsDigits(ds) == ds # <<>> /\ \A i \in 1..Len(ds) : \E d \in 0..9 : DigitChars[d + 1] = ds[i]

\* int(ds) for a string of digits
RECURSIVE ParseInt(_)
ParseInt(ds) ==
    IF ds = <<>> THEN 0
    ELSE ParseInt(SubSeq(ds, 1, Len(ds) - 1)) * 10
         + (CHOOSE d \in 0..9 : DigitChars[d + 1] = ds[Len(ds)])

\* the text after "Total requests: " on the first line of a handlers report
TotalField(text) ==
    LET first == SplitFirst(text, "\n")
    IN SubSeq(first, Len(TotalRequestsTok) + 1, Len(first))

HandlersRendered ==
    rendered # Unset /\ rendered.name = "handlers" /\ rendered.out.kind = "str"

\* C12 as claimed: the number N of the "Total requests: N" line of the
\* handlers report is the sum of all counts of the table, over every handler
\* and every level the table holds, standard or not.
C12_TotalIsSumOfAllCounts ==
    HandlersRendered =>
        /\ IsPrefix(TotalRequestsTok, rendered.out.text)
        /\ IsDigits(TotalField(rendered.out.text))
        /\ ParseInt(TotalField(rendered.out.text)) = TableTotal(rstats)

\* What csv.reader(io.StringIO(text, newline="")) returns for a text, in the
\* excel dialect: the reader's state machine run over the characters.  A
\* record ends at the first "\r" or "\n" outside quotes, the lines of the
\* text ending at "\r", "\n" or "\r\n"; a blank line reads as an empty row.

CsvStates ==
    {"START_RECORD", "START_FIELD", "IN_FIELD", "IN_QUOTED_FIELD",
     "QUOTE_IN_QUOTED_FIELD", "EAT_CRNL"}

\* one character c read in configuration cf
CsvStep(cf, c) ==
    LET nl == c \in {"\r", "\n"}
        after == IF c = "\n" THEN "START_RECORD" ELSE "EAT_CRNL"
        st1 == IF cf.state = "EAT_CRNL" /\ c # "\n" THEN "START_RECORD"
               ELSE cf.state
        state == IF st1 = "START_RECORD" /\ ~nl THEN "START_FIELD" ELSE st1
        EndRecord(row) ==
            [state |-> after, field |-> <<>>, row |-> <<>>,
             rows |-> Append(cf.rows, row)]
        EndField(field) ==
            [cf EXCEPT !.state = "START_FIELD", !.field = <<>>,
                       !.row = Append(cf.row, field)]
        AddChar(to) == [cf EXCEPT !.state = to, !.field = Append(cf.field, c)]
    IN
    CASE state = "EAT_CRNL" -> [cf EXCEPT !.state = "START_RECORD"]
      [] state = "START_RECORD" -> EndRecord(<<>>)
      [] state = "START_FIELD" ->
           IF nl THEN EndRecord(Append(cf.row, <<>>))
           ELSE IF c = "\"" THEN [cf EXCEPT !.state = "IN_QUOTED_FIELD"]
           ELSE IF c = "," THEN EndField(<<>>)
           ELSE AddChar("IN_FIELD")
      [] state = "IN_FIELD" ->
           IF nl THEN EndRecord(Append(cf.row, cf.field))
           ELSE IF c = "," THEN EndField(cf.field)
           ELSE AddChar("IN_FIELD")
      [] state = "IN_QUOTED_FIELD" ->
           IF c = "\"" THEN [cf EXCEPT !.state = "QUOTE_IN_QUOTED_FIELD"]
           ELSE AddChar("IN_QUOTED_FIELD")
      [] state = "QUOTE_IN_QUOTED_FIELD" ->
           IF c = "\"" THEN AddChar("IN_QUOTED_FIELD")
           ELSE IF c = "," THEN EndField(cf.field)
           ELSE IF nl THEN EndRecord(Append(cf.row, cf.field))
           ELSE AddChar("IN_FIELD")

\* the characters lo..hi of the text read from configuration cf, the left
\* half to its end before the right half
RECURSIVE CsvRun(_, _, _, _)
CsvRun(text, lo, hi, cf) ==
    IF lo > hi THEN cf
    ELSE IF lo = hi THEN CsvStep(cf, text[lo])
    ELSE LET mid == (lo + hi) \div 2
             left == CsvRun(text, lo, mid, cf)
         IN IF left.state \in CsvStates THEN CsvRun(text, mid + 1, hi, left)
            ELSE left

ReadCsv(text) ==
    LET cf == CsvRun(text, 1, Len(text),
                     [state |-> "START_RECORD", field |-> <<>>, row |-> <<>>,
                      rows |-> <<>>])
    IN IF cf.state \in {"START_RECORD", "EAT_CRNL"} THEN cf.rows
       ELSE Append(cf.rows, Append(cf.row, cf.field))

CsvRendered ==
    rendered # Unset /\ rendered.name = "csv" /\ rendered.out.kind = "str"

\* the rows read back have the header HANDLER, DEBUG, INFO, WARNING, ERROR,
\* CRITICAL and then one row of six fields per handler, in ascending order
CsvShape(rows, stats) ==
    /\ Len(rows) = 1 + Cardinality(DOMAIN stats)
    /\ rows[1] = <<HandlerTok>> \o LOG_LEVELS
    /\ [i \in 1..(Len(rows) - 1) |-> rows[i + 1][1]] = Sorted(DOMAIN stats)
    /\ \A i \in 2..Len(rows) :
          /\ Len(rows[i]) = 1 + Len(LOG_LEVELS)
          /\ \A k \in 2..Len(rows[i]) : IsDigits(rows[i][k])

\* the count read back for handler h at level l: int() of the field of h's
\* row in l's column, 0 where the rows have no such row or column
ReadCount(rows, h, l) ==
    LET is == {i \in 2..Len(rows) : rows[i][1] = h}
        ks == {k \in 2..Len(rows[1]) : rows[1][k] = l}
    IN IF is = {} \/ ks = {} THEN 0
       ELSE ParseInt(rows[CHOOSE i \in is : TRUE][CHOOSE k \in ks : TRUE])

\* the levels a table holds a count at
LevelsOf(stats) == UNION {DOMAIN stats[h] : h \in DOMAIN stats}

\* C13 as claimed: the rows read back from generate_csv_report give, for
\* every handler and every level of the table, the table's count there (a
\* missing level reading as 0): no triple of the table is lost or changed.
C13_CsvRoundTripAllTriples ==
    CsvRendered =>
        LET rows == ReadCsv(rendered.out.text) IN
        /\ CsvShape(rows, rstats)
        /\ \A h \in DOMAIN rstats :
              \A l \in LevelsOf(rstats) \cup {LOG_LEVELS[k] : k \in 1..Len(LOG_LEVELS)} :
                 ReadCount(rows, h, l) = Count(rstats, h, l)

\* C13 amended: the rows read back from generate_csv_report give, for every
\* handler of the table and each of the five levels DEBUG, INFO, WARNING,
\* ERROR, CRITICAL, the table's count there (a missing level reading as 0),
\* one row per handler in ascending order; a count the table holds at any
\* other level is in no row.
C13_CsvRoundTripStandardLevels ==
    CsvRendered =>
        LET rows == ReadCsv(rendered.out.text) IN
        /\ CsvShape(rows, rstats)
        /\ \A h \in DOMAIN rstats :
              /\ \A k \in 1..Len(LOG_LEVELS) :
                    ReadCount(rows, h, LOG_LEVELS[k]) = Count(rstats, h, LOG_LEVELS[k])
              /\ \A l \in LevelsOf(rstats) \ {LOG_LEVELS[k] : k \in 1..Len(LOG_LEVELS)} :
                    ReadCount(rows, h, l) = 0

\* a CSV report of two handlers, one of them written in quotes, with a count
\* of two digits in the INFO column
C13_Witness ==
    /\ CsvRendered
    /\ DOMAIN rstats = {SlashA, SlashCommaQuote}
    /\ Count(rstats, SlashCommaQuote, INFO) = MaxCount
    /\ Count(rstats, SlashA, CRITICAL) = 1
    /\ ReadCsv(rendered.out.text)[3][1] = SlashCommaQuote

(***************************************************************************)
(* Spec: main and generate_report.  pool.map queues one task per file      *)
(* (for len(files) <= 4 * workers the chunks of Pool.map hold one file     *)
(* each); every worker process takes the next task when idle, runs         *)
(* process_single_file on it step by step and sends the result back, and   *)
(* the MapResult files each result in the slot of its task.                *)
(***************************************************************************)
MaxFiles == 2
MaxCpus == 3

Max(a, b) == IF a >= b THEN a ELSE b

\* workers = max(multiprocessing.cpu_count() - 1, 1)
PoolWorkers(cpus) == Max(cpus - 1, 1)

PyNone == [kind |-> "PyNone"]

\* a table held where None or nothing may be held instead
Table(stats) == [kind |-> "table", stats |-> stats]

FileOk == [lines |-> <<LineGetA, LineGetA>>, chunk |-> 2, readable |-> TRUE]
FileFallback == [lines |-> <<LineErrB, LineGetAFF>>, chunk |-> 1, readable |-> TRUE]
FileUnreadable == [lines |-> <<LineGetA>>, chunk |-> 1, readable |-> FALSE]
PoolFiles == {FileOk, FileFallback, FileUnreadable}

Tasks == 1..Len(files)
Workers == 1..nworkers

Init ==
    /\ files \in UNION {[1..n -> PoolFiles] : n \in 0..MaxFiles}
    /\ alone = [i \in 1..Len(files) |-> process_log_file(files[i])]
    /\ order = <<>> /\ produced = <<>>
    /\ nworkers = 0 /\ nextTask = 0
    /\ wtask = <<>> /\ wst = <<>> /\ slots = <<>> /\ nleft = 0
    /\ firstExc = Unset /\ runs = <<>> /\ gpc = "start"
    /\ stats_list = Unset /\ merged_stats = Unset /\ report = Unset
    /\ exitcode = -1
    /\ IdleParse /\ IdleMerge /\ IdleFile /\ IdleReport

\* with cpu_pool() as pool: pool.map(process_single_file, valid_files) up
\* to the wait for the results
StartMap ==
    /\ gpc = "start"
    /\ \E cpus \in 1..MaxCpus : nworkers' = PoolWorkers(cpus)
    /\ nextTask' = 1
    /\ wtask' = [w \in 1..nworkers' |-> 0]
    /\ wst' = [w \in 1..nworkers' |-> Unset]
    /\ slots' = [t \in Tasks |-> PyNone]
    /\ produced' = [t \in Tasks |-> Unset]
    /\ runs' = [t \in Tasks |-> 0]
    /\ nleft' = Len(files)
    /\ gpc' = "map"
    /\ UNCHANGED <<files, alone, order, firstExc, stats_list, merged_stats, report,
                   exitcode, parseVars, mergeVars, fileVars,
                   reportVars>>

\* the state a worker starts a task in, with the table its last task left
NewTaskKeepStats(prev) ==
    IF prev = Unset THEN NewCall ELSE [NewCall EXCEPT !.stats = prev.stats]

\* the state a worker starts a task in: process_log_file makes its table
\* anew on every call
NewTask(prev) == NewCall

\* an idle worker takes the next task of the queue
TakeTask(w) ==
    /\ gpc = "map"
    /\ wtask[w] = 0
    /\ nextTask <= Len(files)
    /\ wtask' = [wtask EXCEPT ![w] = nextTask]
    /\ wst' = [wst EXCEPT ![w] = NewTask(wst[w])]
    /\ runs' = [runs EXCEPT ![nextTask] = @ + 1]
    /\ nextTask' = nextTask + 1
    /\ UNCHANGED <<files, alone, order, produced, nworkers, slots, nleft, firstExc,
                   gpc, stats_list, merged_stats, report, exitcode,
                   parseVars, mergeVars, fileVars,
                   reportVars>>

\* a worker runs one step of process_single_file on its task
WorkerStep(w) ==
    /\ wtask[w] # 0
    /\ wst[w].pc \notin {"done", "raised"}
    /\ wst' = [wst EXCEPT ![w] = Step(files[wtask[w]], wst[w])]
    /\ UNCHANGED <<files, alone, order, produced, nworkers, nextTask, wtask, slots,
                   nleft, firstExc, runs, gpc, stats_list, merged_stats,
                   report, exitcode, parseVars, mergeVars, fileVars,
                   reportVars>>

\* a result appended to the list of those received so far
SetSlotAppend(value, i, result) ==
    LET free == {k \in 1..Len(value) : value[k] = PyNone}
        k == CHOOSE k \in free : \A o \in free : k <= o
    IN [value EXCEPT ![k] = result]

\* MapResult._set, success: self._value[i] = result
SetSlot(value, i, result) == [value EXCEPT ![i] = result]

\* the worker's task returned: MapResult._set(i, (True, result))
WorkerReturns(w) ==
    /\ wtask[w] # 0
    /\ wst[w].pc = "done"
    /\ produced' = [produced EXCEPT ![wtask[w]] = Table(wst[w].stats)]
    /\ slots' = IF firstExc = Unset
                THEN SetSlot(slots, wtask[w], Table(wst[w].stats))
                ELSE slots
    /\ nleft' = nleft - 1
    /\ order' = Append(order, wtask[w])
    /\ wtask' = [wtask EXCEPT ![w] = 0]
    /\ UNCHANGED <<files, alone, nworkers, nextTask, wst, firstExc, runs, gpc,
                   stats_list, merged_stats, report, exitcode,
                   parseVars, mergeVars, fileVars,
                   reportVars>>

\* the worker's task raised: MapResult._set(i, (False, exc)) stores the
\* first exception only
WorkerRaises(w) ==
    /\ wtask[w] # 0
    /\ wst[w].pc = "raised"
    /\ firstExc' = IF firstExc = Unset
                   THEN [task |-> wtask[w], exc |-> wst[w].exc]
                   ELSE firstExc
    /\ nleft' = nleft - 1
    /\ order' = Append(order, wtask[w])
    /\ wtask' = [wtask EXCEPT ![w] = 0]
    /\ UNCHANGED <<files, alone, produced, nworkers, nextTask, wst, slots, runs, gpc,
                   stats_list, merged_stats, report, exitcode,
                   parseVars, mergeVars, fileVars,
                   reportVars>>

\* a get() that hands back the tables received and drops the failures
MapGetPartial(value, exc) ==
    [kind |-> "value",
     value |-> LET got == {k \in 1..Len(value) : value[k] # PyNone}
               IN [j \in 1..Cardinality(got) |->
                     value[CHOOSE k \in got :
                             Cardinality({o \in got : o < k}) = j - 1].stats]]

\* ApplyResult.get(): the value when every task succeeded, else the stored
\* exception raised
MapGet(value, exc) ==
    IF exc = Unset
    THEN [kind |-> "value", value |-> [i \in 1..Len(value) |-> value[i].stats]]
    ELSE Raise(exc.exc)

\* pool.map returns or raises once no task is left; the with block ends
\* (pool.close(), pool.join()) on both paths
MapReturns ==
    /\ gpc = "map"
    /\ nleft = 0
    /\ LET r == MapGet(slots, firstExc) IN
       IF r.kind = "value"
       THEN /\ stats_list' = r
            /\ gpc' = "mapped"
            /\ UNCHANGED report
       ELSE /\ gpc' = "raising"
            /\ report' = r
            /\ UNCHANGED stats_list
    /\ UNCHANGED <<files, alone, order, produced, nworkers, nextTask, wtask, wst,
                   slots, nleft, firstExc, runs, merged_stats, exitcode,
                   parseVars, mergeVars, fileVars,
                   reportVars>>

\* merged_stats = merge_stats(stats_list); return get_report(...); main
\* prints or saves the report, or exits 1 on the ValueError of get_report
MergeAndReport ==
    /\ gpc = "mapped"
    /\ merged_stats' = Table(merge_stats(stats_list.value))
    /\ \E report_type \in ReportChoices :
         /\ report' = get_report(report_type, merged_stats'.stats)
         /\ exitcode' = IF report'.kind = "raise" THEN 1 ELSE 0
    /\ gpc' = "exit"
    /\ UNCHANGED <<files, alone, order, produced, nworkers, nextTask, wtask, wst,
                   slots, nleft, firstExc, runs, stats_list,
                   parseVars, mergeVars, fileVars,
                   reportVars>>

\* the exception of pool.map leaves generate_report; main's
\* "except Exception" prints it and exits 1
MainFails ==
    /\ gpc = "raising"
    /\ exitcode' = 1
    /\ gpc' = "exit"
    /\ UNCHANGED <<files, alone, order, produced, nworkers, nextTask, wtask, wst,
                   slots, nleft, firstExc, runs, stats_list, merged_stats,
                   report, parseVars, mergeVars, fileVars,
                   reportVars>>

Next ==
    \/ StartMap
    \/ \E w \in Workers : TakeTask(w)
    \/ \E w \in Workers : WorkerStep(w)
    \/ \E w \in Workers : WorkerReturns(w)
    \/ \E w \in Workers : WorkerRaises(w)
    \/ MapReturns
    \/ MergeAndReport
    \/ MainFails

Spec == Init /\ [][Next]_vars

(***************************************************************************)
(* Properties of generate_report.                                          *)
(***************************************************************************)
MapDone == gpc \in {"mapped", "raising", "exit"}

\* C1: the list generate_report collects from the pool has one entry per
\* input path, and its entry i is the table the worker sent back for path i,
\* in whatever order the results arrived.
C1_ResultsInInputOrder ==
    stats_list # Unset =>
        /\ Len(stats_list.value) = Len(files)
        /\ \A i \in 1..Len(files) :
              /\ produced[i] # Unset
              /\ stats_list.value[i] = produced[i].stats

\* two files with different tables, the second one's result arriving first
C1_Witness ==
    /\ stats_list # Unset
    /\ files = <<FileFallback, FileOk>>
    /\ order = <<2, 1>>
    /\ stats_list.value[1] = (SlashA :> (INFO :> 1)) @@ (SlashB :> (ERROR :> 2))
    /\ stats_list.value[2] = (SlashA :> (INFO :> 2))

\* C2: once a task has raised, generate_report returns no report: nothing
\* is merged or rendered, the run ends with that error and status 1; and no
\* task is started twice.
C2_WorkerFailureIsFatal ==
    /\ \A t \in DOMAIN runs : runs[t] <= 1
    /\ firstExc # Unset =>
          /\ stats_list = Unset
          /\ merged_stats = Unset
          /\ gpc \in {"map", "raising", "exit"}
          /\ MapDone => report = Raise(firstExc.exc)
          /\ gpc = "exit" => exitcode = 1
          /\ files[firstExc.task].readable = FALSE

\* one file fails, the other succeeds and its table was received first
C2_Witness ==
    /\ gpc = "exit"
    /\ files = <<FileOk, FileUnreadable>>
    /\ order = <<1, 2>>
    /\ slots[1] = Table(SlashA :> (INFO :> 2))
    /\ firstExc = [task |-> 2, exc |-> "OSError"]
    /\ report = Raise("OSError")
    /\ exitcode = 1
    /\ merged_stats = Unset

RECURSIVE SumAlone(_, _, _)
SumAlone(ends, h, l) ==
    IF ends = <<>> THEN 0
    ELSE Count(Head(ends).stats, h, l) + SumAlone(Tail(ends), h, l)

PoolHandlers == {SlashA, SlashB, HA}

\* C3: the table a worker sends back for a file is the table
\* process_log_file yields for that file run alone, whatever the pool size
\* and the interleaving; the aggregate is the slot-wise sum of those tables.
C3_PrivateTables ==
    /\ \A t \in DOMAIN produced :
          produced[t] # Unset =>
              produced[t].stats = alone[t].stats
    /\ merged_stats # Unset =>
          LET m == merged_stats.stats IN
          \A h \in PoolHandlers \cup DOMAIN m :
             \A l \in KeyLevels \cup (IF h \in DOMAIN m THEN DOMAIN m[h] ELSE {}) :
                Count(m, h, l) = SumAlone(alone, h, l)

\* two workers, the second file's table arriving before the first's
C3_Witness ==
    /\ gpc = "exit"
    /\ nworkers = 2
    /\ order = <<2, 1>>
    /\ files = <<FileOk, FileFallback>>
    /\ merged_stats = Table((SlashA :> (INFO :> 3)) @@ (SlashB :> (ERROR :> 2)))

(***************************************************************************)
(* The shape of a present result of parse_log_line.                        *)
(***************************************************************************)
\* C11 as claimed: every present result of parse_log_line, in the method
\* branch and in the Internal Server Error branch, has a non-empty path
\* holding no '?' and no '#', and a level equal to its own upper-casing.
C11_PresentResultWellFormed ==
    (parsed # Unset /\ parsed.kind = "pair") =>
        /\ parsed.path # <<>>
        /\ \A i \in 1..Len(parsed.path) : parsed.path[i] \notin {"?", "#"}
        /\ parsed.level = Upper(parsed.level)

====
